---- MODULE Spec2Model ----
(***************************************************************************)
(* Model of src/api/main.py: the lifespan context manager (startup of the  *)
(* three optional subsystems, launch of the task processor, teardown), the *)
(* GET /health handler and the global exception handler.                   *)
(*                                                                         *)
(* db_manager, vector_store_manager and agent_controller are collaborators *)
(* imported by main.py; each of their calls is modelled by its outcome     *)
(* (returns, raises an Exception, never returns, or is cancelled by a stop *)
(* signal).  The agent pool's own counters and the                         *)
(* result of get_agent_status() belong to agents/controller.py and are     *)
(* modelled from the specification.                                        *)
(***************************************************************************)
EXTENDS Integers, Sequences, FiniteSets, TLC

VARIABLES
    pc,         \* position of the lifespan coroutine
    initResult, \* outcome of each subsystem's initialize(): none / ok / failed
    calls,      \* collaborator calls made by lifespan, in order
    log,        \* log records written by lifespan, in order
    tasks,      \* number of asyncio tasks created for start_task_processor()
    debug,      \* config.debug, read once at import
    pool,       \* status held by the agent pool (agents map and counters)
    lastQuery,  \* outcome of the latest agent_controller.get_agent_status()
    resp        \* latest HTTP response produced by a handler

vars == <<pc, initResult, calls, log, tasks, debug, pool, lastQuery, resp>>

----------------------------------------------------------------------------
(* Bounds *)

\* largest number of tasks the agent pool ever holds (queued+active+completed)
MaxCount == 1

----------------------------------------------------------------------------
(* Names *)

Subsystems == {"db_manager", "vector_store_manager", "agent_controller"}

AgentIds == {"hunter"}

CounterKeys == {"active_tasks", "queued_tasks", "completed_tasks", "max_concurrent"}

StatusKeys == {"agents"} \cup CounterKeys

\* an outcome of an awaited collaborator call: it returns or raises Exception
Outcomes == {"ok", "raise"}

\* the args tuples of the exceptions a call may raise: Exception(),
\* Exception("timeout"), Exception("errno", "detail")
ExcArgs == {<<>>, <<"timeout">>, <<"errno", "detail">>}

----------------------------------------------------------------------------
(* str(e) of a Python exception: BaseException.__str__ *)

Repr(s) == "'" \o s \o "'"

Str(args) ==
    CASE Len(args) = 0 -> ""
      [] Len(args) = 1 -> args[1]
      [] OTHER -> "(" \o Repr(args[1]) \o ", " \o Repr(args[2]) \o ")"

\* an argument object whose __str__ raises: str() of an exception made with
\* this single argument raises too
BadStrObject == "<object whose __str__ raises>"

\* whether str(e) raises instead of returning a text
StrRaises(args) == Len(args) = 1 /\ args[1] = BadStrObject

\* the exceptions a feature route may let escape: those with a text, and one
\* whose text cannot be rendered
RouteExcArgs == ExcArgs \cup {<<BadStrObject>>}

\* dict.get(key, default)
Get(d, key, default) == IF key \in DOMAIN d THEN d[key] ELSE default

EmptyDict == [k \in {} |-> 0]

----------------------------------------------------------------------------
(* lifespan: startup *)

\* variant: the exception of a failed initialize() leaves lifespan
AfterInitFailureAbort(next) == "start_raised"

\* variant: one try around the three initialize() calls, a failure skips the
\* remaining ones
AfterInitFailureSkipRest(next) == "serving"

\* variant: a failed initialize() sends lifespan straight to its cleanup
AfterInitFailureToTeardown(next) == "agent_controller.shutdown"

\* the position lifespan continues at when an initialize() raised Exception:
\* the except clause logs a warning and falls through to the next statement
AfterInitFailure(next) == next

\* what the try body of a subsystem adds to the log when initialize() returned
ReadyLog(s) == <<[level |-> "info", what |-> "ready", subsystem |-> s]>>

\* what the except clause adds to the log
DegradedLog(s) == <<[level |-> "warning", what |-> "failed", subsystem |-> s]>>

\* try: await s.initialize() ... except Exception: logger.warning(...)
InitStep(s, next, outcome) ==
    /\ calls' = Append(calls, s \o ".initialize")
    /\ IF outcome = "ok"
       THEN /\ initResult' = [initResult EXCEPT ![s] = "ok"]
            /\ log' = log \o ReadyLog(s)
            /\ pc' = next
       ELSE /\ initResult' = [initResult EXCEPT ![s] = "failed"]
            /\ log' = log \o DegradedLog(s)
            /\ pc' = AfterInitFailure(next)

\* variant: the vector store is initialized first
InitDb_VectorFirst ==
    /\ pc = "db_initialize"
    /\ \E outcome \in Outcomes :
          InitStep("vector_store_manager", "vs_initialize", outcome)
    /\ UNCHANGED <<tasks, debug, pool, lastQuery, resp>>

InitDb ==
    /\ pc = "db_initialize"
    /\ \E outcome \in Outcomes : InitStep("db_manager", "vs_initialize", outcome)
    /\ UNCHANGED <<tasks, debug, pool, lastQuery, resp>>

InitVs ==
    /\ pc = "vs_initialize"
    /\ \E outcome \in Outcomes :
          InitStep("vector_store_manager", "ac_initialize", outcome)
    /\ UNCHANGED <<tasks, debug, pool, lastQuery, resp>>

\* the initialize() call lifespan is suspended in at a startup position
InitCallAt(p) ==
    CASE p = "db_initialize" -> "db_manager.initialize"
      [] p = "vs_initialize" -> "vector_store_manager.initialize"
      [] p = "ac_initialize" -> "agent_controller.initialize"

\* a stop signal cancels lifespan while it awaits an initialize(): the
\* CancelledError raised at the await is a BaseException, which no
\* "except Exception" catches, so it leaves lifespan before the yield and
\* the statements after the yield never run
CancelStartup ==
    /\ pc \in {"db_initialize", "vs_initialize", "ac_initialize"}
    /\ calls' = Append(calls, InitCallAt(pc))
    /\ pc' = "start_cancelled"
    /\ UNCHANGED <<initResult, log, tasks, debug, pool, lastQuery, resp>>

\* the agents the pool registers when its initialize() returns
PoolAfterInitialize(p, outcome) ==
    IF outcome = "ok"
    THEN [p EXCEPT !.agents = [a \in AgentIds |-> [state |-> "idle"]]]
    ELSE p

\* variant: create_task placed after the try statement
ReachesCreateTaskAlways(outcome) == TRUE

\* whether control reaches asyncio.create_task(...): it is the statement that
\* follows the awaited initialize() inside the same try body
ReachesCreateTask(outcome) == outcome = "ok"

\* try: await agent_controller.initialize(); asyncio.create_task(
\* agent_controller.start_task_processor()) except Exception: ...; then the
\* final log line and the yield
InitAc ==
    /\ pc = "ac_initialize"
    /\ \E outcome \in Outcomes :
          /\ initResult' = [initResult EXCEPT !["agent_controller"] =
                               IF outcome = "ok" THEN "ok" ELSE "failed"]
          /\ pool' = PoolAfterInitialize(pool, outcome)
          /\ IF ReachesCreateTask(outcome)
             THEN /\ tasks' = tasks + 1
                  /\ calls' = calls \o <<"agent_controller.initialize",
                                         "asyncio.create_task">>
             ELSE /\ tasks' = tasks
                  /\ calls' = Append(calls, "agent_controller.initialize")
          /\ log' = log
                    \o (IF outcome = "ok" THEN ReadyLog("agent_controller")
                        ELSE DegradedLog("agent_controller"))
                    \o (IF ReachesCreateTask(outcome)
                        THEN <<[level |-> "info", what |-> "task_processor_started",
                                subsystem |-> "agent_controller"]>>
                        ELSE <<>>)
                    \o <<[level |-> "info", what |-> "startup_complete",
                          subsystem |-> "app"]>>
          /\ pc' = IF outcome = "ok" THEN "serving" ELSE AfterInitFailure("serving")
    /\ UNCHANGED <<debug, lastQuery, resp>>

----------------------------------------------------------------------------
(* lifespan: teardown, the statements after the yield *)

\* the order of the three awaited teardown calls
TeardownOrder ==
    <<"agent_controller.shutdown", "db_manager.close", "vector_store_manager.close">>

\* the position lifespan is at after a teardown call raised: the calls are not
\* inside a try, so the exception leaves lifespan
AfterTeardownFailure(next) == "stop_raised"

\* an awaited teardown call returns, raises Exception, or never returns
TeardownOutcomes == Outcomes \cup {"hang"}

\* the position lifespan is at while a teardown call never returns: the await
\* has no timeout, so lifespan stays suspended in it
AfterTeardownHang(next) == "blocked"

TeardownPc(i) == IF i > Len(TeardownOrder) THEN "closed" ELSE TeardownOrder[i]

\* the server resumes lifespan after the yield
Shutdown ==
    /\ pc = "serving"
    /\ pc' = TeardownPc(1)
    /\ log' = Append(log, [level |-> "info", what |-> "closing", subsystem |-> "app"])
    /\ UNCHANGED <<initResult, calls, tasks, debug, pool, lastQuery, resp>>

\* await <the i-th teardown call>
TeardownStep(i, outcome) ==
    /\ calls' = Append(calls, TeardownOrder[i])
    /\ IF outcome = "ok"
       THEN /\ pc' = TeardownPc(i + 1)
            /\ log' = IF i = Len(TeardownOrder)
                      THEN Append(log, [level |-> "info", what |-> "closed",
                                        subsystem |-> "app"])
                      ELSE log
       ELSE /\ pc' = IF outcome = "hang"
                    THEN AfterTeardownHang(TeardownPc(i + 1))
                    ELSE AfterTeardownFailure(TeardownPc(i + 1))
            /\ log' = log
    /\ UNCHANGED <<initResult, tasks, debug, pool, lastQuery, resp>>

\* await agent_controller.shutdown()
AcShutdown ==
    /\ pc = TeardownOrder[1]
    /\ \E outcome \in TeardownOutcomes : TeardownStep(1, outcome)

\* the second awaited teardown call
SecondClose ==
    /\ pc = TeardownOrder[2]
    /\ \E outcome \in TeardownOutcomes : TeardownStep(2, outcome)

\* the third awaited teardown call
ThirdClose ==
    /\ pc = TeardownOrder[3]
    /\ \E outcome \in TeardownOutcomes : TeardownStep(3, outcome)

----------------------------------------------------------------------------
(* The agent pool (agents/controller.py) *)

TotalTasks(p) == p.queued_tasks + p.active_tasks + p.completed_tasks

AgentsInState(p, s) == [a \in DOMAIN p.agents |-> [state |-> s]]

\* a route hands a task to the pool
SubmitTask ==
    /\ pc = "serving"
    /\ TotalTasks(pool) < MaxCount
    /\ pool' = [pool EXCEPT !.queued_tasks = @ + 1]
    /\ UNCHANGED <<pc, initResult, calls, log, tasks, debug, lastQuery, resp>>

\* one cycle of start_task_processor(): admit a queued task if the pool's
\* max_concurrent allows it
DispatchTask ==
    /\ pc = "serving"
    /\ tasks > 0
    /\ pool.queued_tasks > 0
    /\ pool.active_tasks < pool.max_concurrent
    /\ pool' = [pool EXCEPT !.queued_tasks = @ - 1,
                            !.active_tasks = @ + 1,
                            !.agents = AgentsInState(pool, "running")]
    /\ UNCHANGED <<pc, initResult, calls, log, tasks, debug, lastQuery, resp>>

\* an active task finishes
CompleteTask ==
    /\ pc = "serving"
    /\ pool.active_tasks > 0
    /\ pool' = [pool EXCEPT !.active_tasks = @ - 1,
                            !.completed_tasks = @ + 1,
                            !.agents = IF pool.active_tasks = 1
                                       THEN AgentsInState(pool, "idle")
                                       ELSE @]
    /\ UNCHANGED <<pc, initResult, calls, log, tasks, debug, lastQuery, resp>>

\* the outcomes of agent_controller.get_agent_status(): it returns a dict
\* holding some of the status keys with the pool's current values, or (a pool
\* that was initialized only) raises an Exception
QueryOutcomes ==
    {[kind |-> "return", value |-> [k \in keys |-> pool[k]]] :
        keys \in SUBSET StatusKeys}
    \cup (IF initResult["agent_controller"] = "ok"
          THEN {[kind |-> "raise", exc |-> args] : args \in ExcArgs}
          ELSE {})

----------------------------------------------------------------------------
(* GET /health *)

\* datetime.now(timezone.utc).isoformat(): the instant is not modelled
Timestamp == "utcnow"

\* variant: active_tasks and queued_tasks read from each other's key
StatsSwapped(agent_status) ==
    [active_tasks |-> Get(agent_status, "queued_tasks", 0),
     queued_tasks |-> Get(agent_status, "active_tasks", 0),
     completed_tasks |-> Get(agent_status, "completed_tasks", 0),
     max_concurrent |-> Get(agent_status, "max_concurrent", 0)]

\* variant: agent_status.get(key) without the default 0; -1 stands for the
\* None a missing key then yields
StatsDefaultNone(agent_status) ==
    [active_tasks |-> Get(agent_status, "active_tasks", -1),
     queued_tasks |-> Get(agent_status, "queued_tasks", -1),
     completed_tasks |-> Get(agent_status, "completed_tasks", -1),
     max_concurrent |-> Get(agent_status, "max_concurrent", -1)]

\* the stats object health_check builds from the returned dict
Stats(agent_status) ==
    [active_tasks |-> Get(agent_status, "active_tasks", 0),
     queued_tasks |-> Get(agent_status, "queued_tasks", 0),
     completed_tasks |-> Get(agent_status, "completed_tasks", 0),
     max_concurrent |-> Get(agent_status, "max_concurrent", 0)]

\* variant: no except clause, the exception of the query leaves the handler
health_check_NoExcept(q) ==
    IF q.kind = "return"
    THEN [kind |-> "response",
          status_code |-> 200,
          content |-> [status |-> "healthy",
                       timestamp |-> Timestamp,
                       agents |-> Get(q.value, "agents", EmptyDict),
                       stats |-> Stats(q.value)]]
    ELSE [kind |-> "raise", exc |-> q.exc]

\* variant: agent_status["agents"] instead of agent_status.get("agents", {}):
\* the KeyError of an absent key is caught by the except clause
health_check_Subscript(q) ==
    IF q.kind = "return" /\ "agents" \in DOMAIN q.value
    THEN [kind |-> "response",
          status_code |-> 200,
          content |-> [status |-> "healthy",
                       timestamp |-> Timestamp,
                       agents |-> q.value["agents"],
                       stats |-> Stats(q.value)]]
    ELSE [kind |-> "response",
          status_code |-> 503,
          content |-> [status |-> "unhealthy",
                       error |-> IF q.kind = "return" THEN Repr("agents")
                                 ELSE Str(q.exc)]]

\* the result of health_check for an outcome q of get_agent_status(): the
\* dict it returns (served with status 200) or the JSONResponse of its except
\* clause; "raise" would be an exception leaving the handler
health_check(q) ==
    IF q.kind = "return"
    THEN [kind |-> "response",
          status_code |-> 200,
          content |-> [status |-> "healthy",
                       timestamp |-> Timestamp,
                       agents |-> Get(q.value, "agents", EmptyDict),
                       stats |-> Stats(q.value)]]
    ELSE [kind |-> "response",
          status_code |-> 503,
          content |-> [status |-> "unhealthy", error |-> Str(q.exc)]]

----------------------------------------------------------------------------
(* Global exception handler *)

\* variant: the message is the exception text whatever config.debug is
global_exception_handler_Leaky(exc, dbg) ==
    IF StrRaises(exc)
    THEN [kind |-> "raise", exc |-> exc]
    ELSE [kind |-> "response",
          status_code |-> 500,
          content |-> [error |-> "Internal server error", message |-> Str(exc)]]

\* variant: the message is the generic string whatever config.debug is
global_exception_handler_Generic(exc, dbg) ==
    IF StrRaises(exc)
    THEN [kind |-> "raise", exc |-> exc]
    ELSE [kind |-> "response",
          status_code |-> 500,
          content |-> [error |-> "Internal server error",
                       message |-> "Something went wrong"]]

\* the result of global_exception_handler(request, exc): logger.error renders
\* str(exc) first, unguarded, so an exception whose str() raises leaves the
\* handler; otherwise the JSONResponse
global_exception_handler(exc, dbg) ==
    IF StrRaises(exc)
    THEN [kind |-> "raise", exc |-> exc]
    ELSE [kind |-> "response",
          status_code |-> 500,
          content |-> [error |-> "Internal server error",
                       message |-> IF dbg THEN Str(exc)
                                   ELSE "Something went wrong"]]

\* what the client gets when the exception handler itself raised: the
\* exception reaches the server, which answers a plain-text 500
ServerError(route, exc) ==
    [route |-> route, via |-> "server", exc |-> exc, status_code |-> 500,
     content |-> [text |-> "Internal Server Error"]]

\* the response the application sends for the result of a route handler: an
\* exception that left the handler goes to the handler registered for it by
\* @app.exception_handler(Exception)
Respond(route, handler, result, dbg) ==
    IF result.kind = "raise"
    THEN IF global_exception_handler(result.exc, dbg).kind = "raise"
         THEN ServerError(route, result.exc)
         ELSE [route |-> route, via |-> "global_exception_handler",
               exc |-> result.exc,
               status_code |-> global_exception_handler(result.exc, dbg).status_code,
               content |-> global_exception_handler(result.exc, dbg).content]
    ELSE [route |-> route, via |-> handler, exc |-> <<>>,
          status_code |-> result.status_code,
          content |-> result.content]

\* variant: the status returned by an earlier query is kept and reused
HealthCheckCached ==
    /\ pc = "serving"
    /\ \E q \in (IF lastQuery.kind = "return" THEN {lastQuery} ELSE QueryOutcomes) :
          /\ lastQuery' = q
          /\ resp' = Respond("/health", "health_check", health_check(q), debug)
    /\ UNCHANGED <<pc, initResult, calls, log, tasks, debug, pool>>

\* a GET /health request
HealthCheck ==
    /\ pc = "serving"
    /\ \E q \in QueryOutcomes :
          /\ lastQuery' = q
          /\ resp' = Respond("/health", "health_check", health_check(q), debug)
    /\ UNCHANGED <<pc, initResult, calls, log, tasks, debug, pool>>

\* a request to a feature route raises an exception no handler translated
RouteRaises ==
    /\ pc = "serving"
    /\ \E exc \in RouteExcArgs :
          resp' = Respond("/api/v1", "router", [kind |-> "raise", exc |-> exc], debug)
    /\ UNCHANGED <<pc, initResult, calls, log, tasks, debug, pool, lastQuery>>

----------------------------------------------------------------------------
(* Specification *)

NoResponse ==
    [route |-> "", via |-> "", exc |-> <<>>, status_code |-> 0,
     content |-> EmptyDict]

Init ==
    /\ pc = "db_initialize"
    /\ initResult = [s \in Subsystems |-> "none"]
    /\ calls = <<>>
    /\ log = <<[level |-> "info", what |-> "starting", subsystem |-> "app"]>>
    /\ tasks = 0
    /\ debug \in BOOLEAN
    /\ \E m \in 1..MaxCount :
          pool = [agents |-> EmptyDict, active_tasks |-> 0, queued_tasks |-> 0,
                  completed_tasks |-> 0, max_concurrent |-> m]
    /\ lastQuery = [kind |-> "none"]
    /\ resp = NoResponse

Next ==
    \/ InitDb
    \/ InitVs
    \/ InitAc
    \/ CancelStartup
    \/ Shutdown
    \/ AcShutdown
    \/ SecondClose
    \/ ThirdClose
    \/ SubmitTask
    \/ DispatchTask
    \/ CompleteTask
    \/ HealthCheck
    \/ RouteRaises

Spec == Init /\ [][Next]_vars

----------------------------------------------------------------------------
(* Properties *)

Count(x, seq) == Cardinality({i \in 1..Len(seq) : seq[i] = x})

\* the position of the first occurrence of x in seq, 0 when absent
IndexOf(x, seq) ==
    IF \E i \in 1..Len(seq) : seq[i] = x
    THEN CHOOSE i \in 1..Len(seq) : seq[i] = x /\ \A j \in 1..(i - 1) : seq[j] # x
    ELSE 0

\* the subsequence of seq of the elements in set S
RECURSIVE Filter(_, _)
Filter(seq, S) ==
    IF seq = <<>> THEN <<>>
    ELSE (IF Head(seq) \in S THEN <<Head(seq)>> ELSE <<>>) \o Filter(Tail(seq), S)

IsPrefix(s, t) == Len(s) <= Len(t) /\ \A i \in 1..Len(s) : s[i] = t[i]

StartupPcs == {"db_initialize", "vs_initialize", "ac_initialize"}

\* lifespan reached its yield: no initialize() is pending and none was
\* interrupted by a stop signal
StartupCompleted == pc \notin StartupPcs \cup {"start_raised", "start_cancelled"}

\* the "closing" line is logged: lifespan resumed after the yield
ShutdownBegun ==
    Count([level |-> "info", what |-> "closing", subsystem |-> "app"], log) = 1

\* the teardown call of a subsystem
TeardownCallOf(s) == IF s = "agent_controller" THEN s \o ".shutdown" ELSE s \o ".close"

TeardownCalls ==
    {"agent_controller.shutdown", "vector_store_manager.close", "db_manager.close"}

\* lifespan's exit part is over: it returned or an exception left it
ShutdownOver == pc \in {"closed", "stop_raised"}

C2_StopNeverRaises ==
    /\ pc # "stop_raised"
    /\ ShutdownOver => \A c \in TeardownCalls : Count(c, calls) >= 1

\* C3: the teardown calls are made in the reverse of the startup order: agent
\* pool, then vector index, then persistence.
C3_TeardownReverseOrder ==
    IsPrefix(Filter(calls, TeardownCalls),
             <<"agent_controller.shutdown", "vector_store_manager.close",
               "db_manager.close">>)

\* C4: when shutdown is over, each of the three teardown calls has been made
\* exactly once, whatever the startup outcomes were.
C4_EachTeardownExactlyOnce ==
    ShutdownOver => \A c \in TeardownCalls : Count(c, calls) = 1

\* C5: the task processor is launched at most once, only after the agent
\* pool's initialize() returned, and never when that initialize() failed.
C5_LaunchOnlyWhenPoolReady ==
    /\ tasks <= 1
    /\ tasks = Count("asyncio.create_task", calls)
    /\ tasks > 0 =>
          /\ initResult["agent_controller"] = "ok"
          /\ 0 < IndexOf("agent_controller.initialize", calls)
          /\ IndexOf("agent_controller.initialize", calls)
                < IndexOf("asyncio.create_task", calls)
    /\ initResult["agent_controller"] = "failed" => tasks = 0

\* a whole lifetime in which the processor was launched, and one in which the
\* pool failed: both are reached (the second is C1_Witness)
C5_Witness ==
    /\ pc = "closed"
    /\ tasks = 1
    /\ initResult["agent_controller"] = "ok"

\* the latest response is the answer to the latest GET /health
HealthAnswered == resp.route = "/health"

C7_ErrorTextNonEmpty ==
    (HealthAnswered /\ lastQuery.kind = "raise") =>
        /\ resp.status_code = 503
        /\ resp.content.error # ""

C9_StatsAreTheReportedValues ==
    (HealthAnswered /\ lastQuery.kind = "return") =>
        /\ DOMAIN resp.content.stats = CounterKeys
        /\ \A k \in CounterKeys \cap DOMAIN lastQuery.value :
              resp.content.stats[k] = lastQuery.value[k]
        /\ "agents" \in DOMAIN lastQuery.value =>
              resp.content.agents = lastQuery.value["agents"]

\* a full report with one active task and agent hunter running
C9_Witness ==
    /\ HealthAnswered
    /\ lastQuery.kind = "return"
    /\ DOMAIN lastQuery.value = StatusKeys
    /\ lastQuery.value["active_tasks"] = 1
    /\ lastQuery.value["queued_tasks"] = 0
    /\ resp.content.stats.active_tasks = 1
    /\ resp.content.agents["hunter"].state = "running"

GenericBody == [error |-> "Internal server error", message |-> "Something went wrong"]

\* C10: with debug off, the global handler's answer to any unhandled exception
\* is status 500 with the fixed generic body, whatever the exception text.
C10_GenericBodyWhenNotDebug ==
    (~debug /\ resp.via = "global_exception_handler") =>
        /\ resp.status_code = 500
        /\ resp.content = GenericBody

\* an exception with a text of its own handled with debug off
C10_Witness ==
    /\ ~debug
    /\ resp.via = "global_exception_handler"
    /\ Str(resp.exc) = "('errno', 'detail')"
    /\ resp.content = GenericBody

\* C11: with debug on, the global handler answers 500 with the fixed error
\* field and the literal exception text as message; the status is 500 for
\* both values of debug.
C11_MessageIsTextWhenDebug ==
    resp.via = "global_exception_handler" =>
        /\ resp.status_code = 500
        /\ resp.content.error = "Internal server error"
        /\ debug =>
              /\ resp.content.message = Str(resp.exc)
              /\ resp.exc = <<"timeout">> => resp.content.message = "timeout"
              /\ resp.exc = <<>> => resp.content.message = ""

\* Exception("timeout") handled with debug on
C11_Witness ==
    /\ debug
    /\ resp.via = "global_exception_handler"
    /\ resp.exc = <<"timeout">>
    /\ resp.status_code = 500
    /\ resp.content.message = "timeout"

\* C12: the global handler never itself throws: when rendering the exception
\* text fails, the client still gets the fixed generic body.
C12_HandlerNeverThrows ==
    /\ resp.via # "server"
    /\ (resp.route # "" /\ StrRaises(resp.exc)) =>
          /\ resp.via = "global_exception_handler"
          /\ resp.content = GenericBody

\* C13: once shutdown has begun it completes even when a teardown call or
\* the background activity never returns: as long as shutdown is not over,
\* lifespan can take its next teardown step.
C13_ShutdownNeverBlocked ==
    (ShutdownBegun /\ ~ShutdownOver) =>
        ENABLED (AcShutdown \/ SecondClose \/ ThirdClose)

\* C14: when a stop signal interrupts one of the initialize() calls, every
\* subsystem that was already opened is closed.
C14_CancelledStartupCloses ==
    pc = "start_cancelled" =>
        \A s \in Subsystems :
            initResult[s] = "ok" => Count(TeardownCallOf(s), calls) = 1

\* the call that would signal the task created by asyncio.create_task to
\* stop; lifespan keeps no reference to that task
HaltCalls == {"task.cancel"}

\* C15: in a shutdown where the task processor was launched, it is signalled
\* to stop exactly once, before the agent pool is shut down.
C15_HaltOnceBeforePoolClose ==
    (tasks > 0 /\ Count("agent_controller.shutdown", calls) >= 1) =>
        /\ Len(Filter(calls, HaltCalls)) = 1
        /\ \E i \in 1..Len(calls) :
              /\ calls[i] \in HaltCalls
              /\ i < IndexOf("agent_controller.shutdown", calls)

InitOrder == <<"db_manager", "vector_store_manager", "agent_controller">>

InitCalls == {InitOrder[i] \o ".initialize" : i \in 1..Len(InitOrder)}

\* C16: the initialize() calls are made one after the other in the order
\* persistence, vector index, agent pool; a later one is made only when every
\* earlier one has returned or failed.
C16_StartupSequential ==
    /\ IsPrefix(Filter(calls, InitCalls),
                [i \in 1..Len(InitOrder) |-> InitOrder[i] \o ".initialize"])
    /\ \A i \in 1..Len(InitOrder) :
          Count(InitOrder[i] \o ".initialize", calls) >= 1 =>
              \A j \in 1..(i - 1) : initResult[InitOrder[j]] \in {"ok", "failed"}

\* the agent pool's initialize() was called after the other two had failed
\* and returned
C16_Witness ==
    /\ Filter(calls, InitCalls) =
          [i \in 1..Len(InitOrder) |-> InitOrder[i] \o ".initialize"]
    /\ initResult["db_manager"] = "failed"
    /\ initResult["vector_store_manager"] = "ok"
    /\ pc = "serving"
    /\ tasks = 1

\* the state lifespan recorded for a subsystem, read from its log lines
SubsystemState(s) ==
    IF Count(ReadyLog(s)[1], log) > 0 THEN "ready"
    ELSE IF Count(DegradedLog(s)[1], log) > 0 THEN "degraded"
    ELSE "uninitialized"

\* C17: once startup has completed no subsystem is uninitialized: each is
\* ready exactly when its initialize() returned and degraded exactly when it
\* failed.
C17_NoneUninitializedAfterStartup ==
    StartupCompleted =>
        \A s \in Subsystems :
            /\ SubsystemState(s) \in {"ready", "degraded"}
            /\ SubsystemState(s) = "ready" <=> initResult[s] = "ok"
            /\ SubsystemState(s) = "degraded" <=> initResult[s] = "failed"
            /\ Count(ReadyLog(s)[1], log) + Count(DegradedLog(s)[1], log) = 1

\* shutdown finished after persistence failed and the other two succeeded
C17_Witness ==
    /\ pc = "closed"
    /\ SubsystemState("db_manager") = "degraded"
    /\ SubsystemState("vector_store_manager") = "ready"
    /\ SubsystemState("agent_controller") = "ready"

StartupCompleteLine == [level |-> "info", what |-> "startup_complete", subsystem |-> "app"]

ClosingLine == [level |-> "info", what |-> "closing", subsystem |-> "app"]

\* C18: every execution is ordered: the initialize attempts, the optional
\* launch, serving, teardown.  The launch precedes serving and no teardown
\* call is made before serving has ended.
C18_LifecycleOrder ==
    /\ pc \in StartupPcs \cup {"start_cancelled"} =>
          /\ tasks = 0
          /\ Filter(calls, TeardownCalls \cup {"asyncio.create_task"}) = <<>>
          /\ Count(StartupCompleteLine, log) = 0
    /\ pc = "serving" =>
          /\ \A c \in InitCalls : Count(c, calls) = 1
          /\ Filter(calls, TeardownCalls) = <<>>
          /\ ~ShutdownBegun
    /\ Filter(calls, TeardownCalls) # <<>> =>
          /\ ShutdownBegun
          /\ 0 < IndexOf(StartupCompleteLine, log)
          /\ IndexOf(StartupCompleteLine, log) < IndexOf(ClosingLine, log)
          /\ \A c \in InitCalls : Count(c, calls) = 1
    /\ \A i, j \in 1..Len(calls) :
          /\ (calls[i] \in InitCalls /\ calls[j] \notin InitCalls) => i < j
          /\ (calls[i] = "asyncio.create_task" /\ calls[j] \in TeardownCalls) => i < j

\* a whole lifetime with a launch: three initialize calls, the launch, then
\* the teardown calls
C18_Witness ==
    /\ pc = "closed"
    /\ Len(calls) = 7
    /\ calls[4] = "asyncio.create_task"
    /\ calls[5] \in TeardownCalls

\* a step that answers a GET /health
HealthStep ==
    \/ lastQuery' # lastQuery
    \/ resp' # resp /\ resp'.route = "/health"

\* C19: every GET /health queries the pool anew and reports the counters the
\* pool holds at that moment, and changes neither the lifecycle state nor
\* the pool.
C19_HealthIsFreshAndReadOnly ==
    [][HealthStep =>
          /\ pool' = pool
          /\ initResult' = initResult
          /\ <<pc, calls, log, tasks>>' = <<pc, calls, log, tasks>>
          /\ lastQuery'.kind = "return" =>
                /\ \A k \in DOMAIN lastQuery'.value : lastQuery'.value[k] = pool[k]
                /\ \A k \in CounterKeys \cap DOMAIN lastQuery'.value :
                      resp'.content.stats[k] = pool[k]
                /\ "agents" \in DOMAIN lastQuery'.value =>
                      resp'.content.agents = pool.agents]_vars

\* a GET /health answered after a task completed reports the new counter,
\* which is still the pool's
C19_Witness ==
    /\ HealthAnswered
    /\ lastQuery.kind = "return"
    /\ "completed_tasks" \in DOMAIN lastQuery.value
    /\ resp.content.stats.completed_tasks = 1
    /\ pool.completed_tasks = 1

\* C20: when the returned status lacks any of its keys, GET /health still
\* answers 200 healthy, a missing agents is the empty map and a missing
\* counter is 0; the four stats fields are always there and non-negative.
C20_MissingKeysDefault ==
    (HealthAnswered /\ lastQuery.kind = "return") =>
        /\ resp.status_code = 200
        /\ resp.content.status = "healthy"
        /\ "agents" \notin DOMAIN lastQuery.value => resp.content.agents = EmptyDict
        /\ DOMAIN resp.content.stats = CounterKeys
        /\ \A k \in CounterKeys :
              /\ k \notin DOMAIN lastQuery.value => resp.content.stats[k] = 0
              /\ resp.content.stats[k] >= 0

\* GET /health answered from an empty status dict of an initialized pool
C20_Witness ==
    /\ HealthAnswered
    /\ initResult["agent_controller"] = "ok"
    /\ lastQuery.kind = "return"
    /\ DOMAIN lastQuery.value = {}
    /\ resp.status_code = 200
    /\ resp.content.stats.max_concurrent = 0

====
